---------------------------- MODULE Spec2Model ----------------------------
(***************************************************************************)
(* A model of src/src/github-stats-lib.js: the fetch loop of main, the     *)
(* fetch-time filter, and the two aggregation folds getDetailedStats and   *)
(* getSummary.                                                             *)
(*                                                                         *)
(* Timestamps are day numbers (the day of September 2023): new Date(s) of  *)
(* an ISO timestamp is monotone in the instant it names, and the code only *)
(* compares dates with < and >.  Handles, owners and repository names are  *)
(* strings; the composite keys of the folds are built with "/" and taken   *)
(* apart by split('/') as in the source.  A plain JavaScript object {}     *)
(* answers a property read with the own property or, when there is none,   *)
(* with the one inherited from Object.prototype.                           *)
(***************************************************************************)
EXTENDS Integers, Sequences, FiniteSets, TLC

VARIABLES
    pc,            \* where main is
    progress,      \* the loop counter of main's current for loop
    prs,           \* main's collection of normalized pull requests
    page,          \* the last getPullRequests call: the data of the page received last
    listing,       \* the last getPullRequests call: its local prs, the filtered items so far
    inflight,      \* remote requests issued and not yet answered
    completed,     \* fetches of the current phase that have completed
    bar,           \* what displayProgress / displayDone wrote last
    detailedStats, \* main's detailedStats once computed
    stats,         \* what getSummary(detailedStats) gave
    tables,        \* what console.table has printed, in order
    filename,      \* main's filename argument
    fileResult,    \* the outcome of fs.writeFileSync
    errorLog,      \* what console.error has printed
    failure        \* why main rejected, when it did

vars == <<pc, progress, prs, page, listing, inflight, completed, bar,
          detailedStats, stats, tables, filename, fileResult, errorLog, failure>>

---------------------------------------------------------------------------
(* Values *)

dateFrom == 15
dateTo == 23

\* The repositories main is called with (two of the source's list).
repos == << [owner |-> "1inch", repo |-> "farming"],
            [owner |-> "1inch", repo |-> "st1inch"] >>

\* pr.user / review.user of an account that no longer exists.
Null == "null"

PullStates == {"open", "closed"}
ReviewStates == {"COMMENTED", "APPROVED", "CHANGES_REQUESTED"}

\* Property names every plain object inherits from Object.prototype.
ObjectPrototype == {"constructor", "toString", "toLocaleString", "valueOf",
                    "hasOwnProperty", "isPrototypeOf", "propertyIsEnumerable",
                    "__proto__"}

---------------------------------------------------------------------------
(* Sequence helpers *)

RECURSIVE SeqSum(_)
SeqSum(s) == IF s = <<>> THEN 0 ELSE Head(s) + SeqSum(Tail(s))

Range(s) == {s[i] : i \in 1..Len(s)}

\* String.prototype.split('/'): the segments of str between the slashes.
RECURSIVE SplitFrom(_, _, _)
SplitFrom(str, start, i) ==
    IF i > Len(str) THEN <<SubSeq(str, start, Len(str))>>
    ELSE IF SubSeq(str, i, i) = "/"
         THEN <<SubSeq(str, start, i - 1)>> \o SplitFrom(str, i + 1, i + 1)
         ELSE SplitFrom(str, start, i + 1)

Split(str) == SplitFrom(str, 1, 1)

\* The template literal `${a}/${b}/${c}`.
Key3(a, b, c) == a \o "/" \o b \o "/" \o c

\* The template literal `${a}/${b}`.
Key2(a, b) == a \o "/" \o b

---------------------------------------------------------------------------
(* The interval checks *)

\* The interval check with the bounds of the window let in.
ValidIntervalInclusive(ts) == ts >= dateFrom /\ ts <= dateTo

\* new Date(ts) > dateFrom & new Date(ts) < dateTo
ValidInterval(ts) == ts > dateFrom /\ ts < dateTo

\* The filter with the bounds of the window let in.
filterPullRequestListInclusive(pr) ==
    pr.state = "open" \/ (pr.created_at >= dateFrom /\ pr.created_at <= dateTo)

\* filterPullRequestList
filterPullRequestList(pr) ==
    LET open == pr.state = "open"
        createdAfter == pr.created_at > dateFrom
        createdBefore == pr.created_at < dateTo
    IN  open \/ (createdAfter /\ createdBefore)

\* data.filter(pr => filterPullRequestList(pr, dateFrom, dateTo))
RECURSIVE FilterPage(_)
FilterPage(data) ==
    IF data = <<>> THEN <<>>
    ELSE (IF filterPullRequestList(Head(data)) THEN <<Head(data)>> ELSE <<>>)
         \o FilterPage(Tail(data))

---------------------------------------------------------------------------
(* Plain objects used as maps: the own properties in insertion order *)

Own(acc, key) == \E i \in 1..Len(acc) : acc[i].key = key

IndexOf(acc, key) == CHOOSE i \in 1..Len(acc) : acc[i].key = key

\* Whether acc[key] is truthy: an own property (always an object here), or
\* the property inherited from Object.prototype.
Truthy(acc, key) == Own(acc, key) \/ key \in ObjectPrototype

---------------------------------------------------------------------------
(* getDetailedStats *)

\* if (!acc[key]) { acc[key] = { created: 0, commented: 0, approved: 0 }; }
EnsureRow(acc, key) ==
    IF Truthy(acc, key) THEN acc
    ELSE Append(acc, [key |-> key, created |-> 0, commented |-> 0, approved |-> 0])

\* acc[key].created += 1 (a write through an inherited object leaves acc as it is)
IncCreated(acc, key) ==
    IF Own(acc, key) THEN [acc EXCEPT ![IndexOf(acc, key)].created = @ + 1] ELSE acc

IncCommented(acc, key) ==
    IF Own(acc, key) THEN [acc EXCEPT ![IndexOf(acc, key)].commented = @ + 1] ELSE acc

IncApproved(acc, key) ==
    IF Own(acc, key) THEN [acc EXCEPT ![IndexOf(acc, key)].approved = @ + 1] ELSE acc

\* The callback without its self-review check.
AlignReviewAlways(pr, review) == TRUE

\* const alignReview = pr.author !== review.reviewer
AlignReview(pr, review) == pr.author # review.reviewer

\* The callback without its per-PR markers.
MarkedNever(markers, key) == FALSE

\* Whether markers[key] is truthy (markers is {} with some keys set to true).
Marked(markers, key) == key \in markers \/ key \in ObjectPrototype

\* One call of the forEach callback. st carries acc and the two per-PR marker
\* objects reviewsCommented and reviewsApproved (the keys set to true).
ReviewStep(st, pr, review) ==
    LET validReviewInterval == ValidInterval(review.submited_at)
        alignReview == AlignReview(pr, review)
        reviewerKey == Key3(pr.owner, pr.repo, review.reviewer)
        acc1 == EnsureRow(st.acc, reviewerKey)
    IN  IF validReviewInterval /\ alignReview
        THEN IF review.state = "COMMENTED" /\ ~Marked(st.reviewsCommented, reviewerKey)
             THEN [acc |-> IncCommented(acc1, reviewerKey),
                   reviewsCommented |-> st.reviewsCommented \cup {reviewerKey},
                   reviewsApproved |-> st.reviewsApproved]
             ELSE IF review.state = "APPROVED" /\ ~Marked(st.reviewsApproved, reviewerKey)
                  THEN [acc |-> IncApproved(acc1, reviewerKey),
                        reviewsCommented |-> st.reviewsCommented,
                        reviewsApproved |-> st.reviewsApproved \cup {reviewerKey}]
                  ELSE [st EXCEPT !.acc = acc1]
        ELSE st

\* pr.reviews.forEach(...)
RECURSIVE ForEachReview(_, _, _)
ForEachReview(st, pr, reviews) ==
    IF reviews = <<>> THEN st
    ELSE ForEachReview(ReviewStep(st, pr, Head(reviews)), pr, Tail(reviews))

\* The reducer: one pull request folded into acc.
PullStep(acc, pr) ==
    LET key == Key3(pr.owner, pr.repo, pr.author)
        validPullRequestInterval == ValidInterval(pr.created_at)
        acc1 == IF validPullRequestInterval
                THEN IncCreated(EnsureRow(acc, key), key)
                ELSE acc
        fresh == [acc |-> acc1, reviewsCommented |-> {}, reviewsApproved |-> {}]
    IN  ForEachReview(fresh, pr, pr.reviews).acc

\* pullRequests.reduce(..., {})
RECURSIVE Reduce(_, _)
Reduce(acc, pullRequests) ==
    IF pullRequests = <<>> THEN acc
    ELSE Reduce(PullStep(acc, Head(pullRequests)), Tail(pullRequests))

\* Object.keys(grouped).map(key => { const [owner, repo, author] = key.split('/'); ... })
ToRow(entry) ==
    LET parts == Split(entry.key)
    IN  [owner |-> parts[1], repo |-> parts[2], author |-> parts[3],
         created |-> entry.created, commented |-> entry.commented,
         approved |-> entry.approved]

getDetailedStats(pullRequests) ==
    LET grouped == Reduce(<<>>, pullRequests)
    IN  [i \in 1..Len(grouped) |-> ToRow(grouped[i])]

---------------------------------------------------------------------------
(* getSummary *)

\* One call of the reducer. res is [threw |-> FALSE, acc |-> the own properties
\* of the accumulator] or [threw |-> TRUE] once a TypeError has been thrown.
\* For an author that is an Object.prototype name, acc[item.author] is the
\* inherited value: no entry is created, `+=` writes to that value, and its
\* `repos` and `reposReviewed` are undefined, so `.add` throws.
SummaryStep(res, item) ==
    IF res.threw THEN res
    ELSE LET acc1 == IF Truthy(res.acc, item.author) THEN res.acc
                     ELSE Append(res.acc, [key |-> item.author, pull_requests |-> 0,
                                           repos |-> {}, commented |-> 0,
                                           approved |-> 0, reposReviewed |-> {}])
             pair == Key2(item.owner, item.repo)
         IN  IF Own(acc1, item.author)
             THEN LET i == IndexOf(acc1, item.author)
                      e == acc1[i]
                  IN  [threw |-> FALSE,
                       acc |-> [acc1 EXCEPT ![i] =
                           [key |-> e.key,
                            pull_requests |-> e.pull_requests + item.created,
                            repos |-> IF item.created > 0
                                      THEN e.repos \cup {pair} ELSE e.repos,
                            commented |-> e.commented + item.commented,
                            approved |-> e.approved + item.approved,
                            reposReviewed |->
                                IF item.commented > 0 \/ item.approved > 0
                                THEN e.reposReviewed \cup {pair}
                                ELSE e.reposReviewed]]]
             ELSE IF item.created > 0 \/ item.commented > 0 \/ item.approved > 0
                  THEN [threw |-> TRUE]
                  ELSE [threw |-> FALSE, acc |-> acc1]

\* stats.reduce(..., {})
RECURSIVE SummaryReduce(_, _)
SummaryReduce(res, items) ==
    IF items = <<>> THEN res
    ELSE SummaryReduce(SummaryStep(res, Head(items)), Tail(items))

\* Object.keys(finalResult).map(author => ...)
ToSummaryRow(e) ==
    [author |-> e.key, pull_requests |-> e.pull_requests,
     repos |-> Cardinality(e.repos), commented |-> e.commented,
     approved |-> e.approved, repos_reviewed |-> Cardinality(e.reposReviewed)]

\* [threw |-> TRUE] when the call throws, else the rows it returns.
getSummary(items) ==
    LET finalResult == SummaryReduce([threw |-> FALSE, acc |-> <<>>], items)
    IN  IF finalResult.threw THEN [threw |-> TRUE]
        ELSE [threw |-> FALSE,
              rows |-> [i \in 1..Len(finalResult.acc) |-> ToSummaryRow(finalResult.acc[i])]]

---------------------------------------------------------------------------
(* What the remote platform may answer *)

MaxPulls == 2      \* pull requests retained over the whole run
MaxPerPage == 1    \* items on one page of a listing
MaxReviews == 1    \* reviews on one pull request

\* A raw pull request of a listing: user is Null for a deleted account.
PullPayloads == [state : PullStates,
                 created_at : {dateFrom, dateFrom + 1, dateTo},
                 user : {"alice", Null}]

\* A raw review.
ReviewPayloads == [state : {"APPROVED"}, user : {"bob", Null},
                   submitted_at : {dateFrom + 1}]

SeqsUpTo(S, n) == UNION {[1..k -> S] : k \in 0..n}

Pages == SeqsUpTo(PullPayloads, MaxPerPage)

ReviewLists == SeqsUpTo(ReviewPayloads, MaxReviews)

---------------------------------------------------------------------------
(* main *)

total == Len(repos)

\* displayProgress(progress, total, label): the line it leaves on the terminal
displayProgress(shown, of, label) ==
    [kind |-> "progress", progress |-> shown, total |-> of, label |-> label]

\* displayDone(total)
displayDone(of) ==
    [kind |-> "done", progress |-> of, total |-> of, label |-> "Done"]

\* A loop that reports the number of finished iterations.
ShownCompleted(i) == i

\* The first argument main hands to displayProgress in both loops.
Shown(i) == i + 1

PullsRequestOf(repo) == [kind |-> "pulls", owner |-> repo.owner, repo |-> repo.repo]

ReviewsRequestOf(item) ==
    [kind |-> "reviews", owner |-> item.owner, repo |-> item.repo,
     pull_number |-> item.number]

\* The object main builds from a raw pull request (the fields the aggregation
\* reads, and number); pr.user.login throws when user is null.
NormalizePull(repo, pr, number) ==
    [owner |-> repo.owner, repo |-> repo.repo, number |-> number,
     state |-> pr.state, created_at |-> pr.created_at, author |-> pr.user]

NormalizeReview(review) ==
    [state |-> review.state, reviewer |-> review.user,
     submited_at |-> review.submitted_at]

\* item.reviews = ...
WithReviews(item, reviews) ==
    [f \in DOMAIN item \cup {"reviews"} |->
        IF f = "reviews" THEN reviews ELSE item[f]]

\* Normalization that lets a payload without user through.
NoUserUnchecked(payloads) == FALSE

\* Whether normalizing the payloads throws: some pr.user / review.user is null.
NoUser(payloads) == \E i \in 1..Len(payloads) : payloads[i].user = Null

Reject(why) ==
    /\ pc' = "rejected"
    /\ failure' = why

Init ==
    /\ pc = "start"
    /\ progress = 0
    /\ prs = <<>>
    /\ page = <<>>
    /\ listing = <<>>
    /\ inflight = {}
    /\ completed = 0
    /\ bar = [kind |-> "none"]
    /\ detailedStats = [computed |-> FALSE]
    /\ stats = [computed |-> FALSE]
    /\ tables = <<>>
    /\ filename \in {"", "results.json"}
    /\ fileResult = "none"
    /\ errorLog = <<>>
    /\ failure = "none"

\* octokit.rest.users.getAuthenticated() is issued
Authenticate ==
    /\ pc = "start"
    /\ inflight' = inflight \cup {[kind |-> "user"]}
    /\ pc' = "awaitUser"
    /\ UNCHANGED <<progress, prs, page, listing, completed, bar, detailedStats,
                   stats, tables, filename, fileResult, errorLog, failure>>

\* ... and answered; the first loop starts
Authenticated ==
    /\ pc = "awaitUser"
    /\ inflight' = inflight \ {[kind |-> "user"]}
    /\ \/ /\ pc' = "pulls"
          /\ progress' = 0
          /\ prs' = <<>>
          /\ UNCHANGED failure
       \/ /\ Reject("RequestError")
          /\ UNCHANGED <<progress, prs>>
    /\ UNCHANGED <<page, listing, completed, bar, detailedStats, stats, tables,
                   filename, fileResult, errorLog>>

\* The head of an iteration of the first loop: displayProgress, then the call
\* of getPullRequests, whose iterator requests the first page.
PullsRequest ==
    /\ pc = "pulls"
    /\ progress < total
    /\ LET repo == repos[progress + 1]
       IN  /\ bar' = displayProgress(Shown(progress), total,
                                     "@" \o repo.owner \o "/" \o repo.repo)
           /\ inflight' = inflight \cup {PullsRequestOf(repo)}
    /\ listing' = <<>>
    /\ page' = <<>>
    /\ pc' = "awaitPulls"
    /\ UNCHANGED <<progress, prs, completed, detailedStats, stats, tables,
                   filename, fileResult, errorLog, failure>>

\* A page that has a successor arrives: the loop body filters it into the
\* local prs and the iterator requests the next page.
NextPage ==
    /\ pc = "awaitPulls"
    /\ \E data \in Pages \ {<<>>} :
          /\ Len(prs) + Len(listing) + Len(FilterPage(data)) <= MaxPulls
          /\ page' = data
          /\ listing' = listing \o FilterPage(data)
    /\ UNCHANGED <<pc, progress, prs, inflight, completed, bar, detailedStats,
                   stats, tables, filename, fileResult, errorLog, failure>>

\* The last page arrives: getPullRequests returns, main appends the normalized
\* pull requests and the loop counter advances.
LastPage ==
    /\ pc = "awaitPulls"
    /\ \E data \in Pages :
          /\ Len(prs) + Len(listing) + Len(FilterPage(data)) <= MaxPulls
          /\ page' = data
          /\ listing' = listing \o FilterPage(data)
    /\ inflight' = inflight \ {PullsRequestOf(repos[progress + 1])}
    /\ completed' = completed + 1
    /\ IF NoUser(listing')
       THEN /\ Reject("TypeError: reading 'login' of null")
            /\ UNCHANGED <<prs, progress>>
       ELSE /\ prs' = prs \o [i \in 1..Len(listing') |->
                                 NormalizePull(repos[progress + 1], listing'[i], i)]
            /\ progress' = progress + 1
            /\ pc' = "pulls"
            /\ UNCHANGED failure
    /\ UNCHANGED <<bar, detailedStats, stats, tables, filename, fileResult, errorLog>>

\* A page request fails: the rejection propagates out of main.
PullsFailed ==
    /\ pc = "awaitPulls"
    /\ inflight' = inflight \ {PullsRequestOf(repos[progress + 1])}
    /\ Reject("RequestError")
    /\ UNCHANGED <<progress, prs, page, listing, completed, bar, detailedStats,
                   stats, tables, filename, fileResult, errorLog>>

\* The first loop ends: displayDone(total), and the second loop starts.
PullsDone ==
    /\ pc = "pulls"
    /\ progress = total
    /\ bar' = displayDone(total)
    /\ progress' = 0
    /\ completed' = 0
    /\ listing' = <<>>
    /\ page' = <<>>
    /\ pc' = "reviews"
    /\ UNCHANGED <<prs, inflight, detailedStats, stats, tables,
                   filename, fileResult, errorLog, failure>>

\* The second loop with getReviews called and not awaited.
ReviewsRequestNoAwait ==
    /\ pc = "reviews"
    /\ progress < Len(prs)
    /\ LET item == prs[progress + 1]
       IN  /\ bar' = displayProgress(progress + 1, Len(prs),
                  "@" \o item.owner \o "/" \o item.repo \o "/pull/" \o ToString(item.number))
           /\ inflight' = inflight \cup {ReviewsRequestOf(item)}
    /\ progress' = progress + 1
    /\ UNCHANGED <<pc, prs, page, listing, completed, detailedStats, stats,
                   tables, filename, fileResult, errorLog, failure>>

\* The head of an iteration of the second loop: displayProgress, then the
\* request of getReviews.
ReviewsRequest ==
    /\ pc = "reviews"
    /\ progress < Len(prs)
    /\ LET item == prs[progress + 1]
       IN  /\ bar' = displayProgress(Shown(progress), Len(prs),
                  "@" \o item.owner \o "/" \o item.repo \o "/pull/" \o ToString(item.number))
           /\ inflight' = inflight \cup {ReviewsRequestOf(item)}
    /\ pc' = "awaitReviews"
    /\ UNCHANGED <<progress, prs, page, listing, completed, detailedStats, stats,
                   tables, filename, fileResult, errorLog, failure>>

\* The reviews arrive and are normalized into the item.
ReviewsResponse ==
    /\ pc = "awaitReviews"
    /\ inflight' = inflight \ {ReviewsRequestOf(prs[progress + 1])}
    /\ completed' = completed + 1
    /\ \E data \in ReviewLists :
          IF NoUser(data)
          THEN /\ Reject("TypeError: reading 'login' of null")
               /\ UNCHANGED <<prs, progress>>
          ELSE /\ prs' = [prs EXCEPT ![progress + 1] =
                            WithReviews(@, [i \in 1..Len(data) |-> NormalizeReview(data[i])])]
               /\ progress' = progress + 1
               /\ pc' = "reviews"
               /\ UNCHANGED failure
    /\ UNCHANGED <<page, listing, bar, detailedStats, stats, tables, filename,
                   fileResult, errorLog>>

ReviewsFailed ==
    /\ pc = "awaitReviews"
    /\ inflight' = inflight \ {ReviewsRequestOf(prs[progress + 1])}
    /\ Reject("RequestError")
    /\ UNCHANGED <<progress, prs, page, listing, completed, bar, detailedStats,
                   stats, tables, filename, fileResult, errorLog>>

\* The second loop ends: displayDone(prs.length).
ReviewsDone ==
    /\ pc = "reviews"
    /\ progress = Len(prs)
    /\ bar' = displayDone(Len(prs))
    /\ pc' = "aggregate"
    /\ UNCHANGED <<progress, prs, page, listing, inflight, completed, detailedStats,
                   stats, tables, filename, fileResult, errorLog, failure>>

\* const detailedStats = getDetailedStats(prs, dateFrom, dateTo); console.table(detailedStats)
Aggregate ==
    /\ pc = "aggregate"
    /\ detailedStats' = [computed |-> TRUE, rows |-> getDetailedStats(prs)]
    /\ tables' = Append(tables, [name |-> "detailed", rows |-> detailedStats'.rows])
    /\ pc' = "summary"
    /\ UNCHANGED <<progress, prs, page, listing, inflight, completed, bar, stats,
                   filename, fileResult, errorLog, failure>>

\* const stats = getSummary(detailedStats); console.table(stats)
Summarize ==
    /\ pc = "summary"
    /\ LET result == getSummary(detailedStats.rows)
       IN  IF result.threw
           THEN /\ Reject("TypeError: reading 'add' of undefined")
                /\ stats' = [computed |-> TRUE, threw |-> TRUE]
                /\ UNCHANGED tables
           ELSE /\ stats' = [computed |-> TRUE, threw |-> FALSE, rows |-> result.rows]
                /\ tables' = Append(tables, [name |-> "summary", rows |-> result.rows])
                /\ pc' = "save"
                /\ UNCHANGED failure
    /\ UNCHANGED <<progress, prs, page, listing, inflight, completed, bar,
                   detailedStats, filename, fileResult, errorLog>>

\* if (filename) is false: main returns.
SkipSave ==
    /\ pc = "save"
    /\ filename = ""
    /\ pc' = "done"
    /\ UNCHANGED <<progress, prs, page, listing, inflight, completed, bar,
                   detailedStats, stats, tables, filename, fileResult, errorLog, failure>>

\* fs.writeFileSync succeeds.
SaveWritten ==
    /\ pc = "save"
    /\ filename # ""
    /\ fileResult' = "written"
    /\ pc' = "done"
    /\ UNCHANGED <<progress, prs, page, listing, inflight, completed, bar,
                   detailedStats, stats, tables, filename, errorLog, failure>>

\* A write whose error is not caught.
RethrowWriteError ==
    /\ errorLog' = errorLog
    /\ pc' = "rejected"
    /\ failure' = "Error: writeFileSync"

\* What the catch clause does with the error of a failed write.
CatchWriteError ==
    /\ errorLog' = Append(errorLog, "writeFileSync")
    /\ pc' = "done"
    /\ UNCHANGED failure

\* fs.writeFileSync throws.
SaveFailed ==
    /\ pc = "save"
    /\ filename # ""
    /\ fileResult' = "failed"
    /\ CatchWriteError
    /\ UNCHANGED <<progress, prs, page, listing, inflight, completed, bar,
                   detailedStats, stats, tables, filename>>

Next ==
    \/ Authenticate
    \/ Authenticated
    \/ PullsRequest
    \/ NextPage
    \/ LastPage
    \/ PullsFailed
    \/ PullsDone
    \/ ReviewsRequest
    \/ ReviewsResponse
    \/ ReviewsFailed
    \/ ReviewsDone
    \/ Aggregate
    \/ Summarize
    \/ SkipSave
    \/ SaveWritten
    \/ SaveFailed

Spec == Init /\ [][Next]_vars

---------------------------------------------------------------------------
(* The aggregation on its own: main from the point where both loops have   *)
(* ended, over every collection of at most MaxAggPulls pull requests with  *)
(* at most MaxAggReviews reviews between them that the loops can leave.    *)

MaxAggPulls == 2
MaxAggReviews == 2

AggAuthors == {"alice", "bob"}
AggReviewers == {"bob", "constructor"}
AggTimes == {dateFrom, dateFrom + 1, dateTo}

AggPulls == {p \in [state : PullStates, created_at : AggTimes, user : AggAuthors] :
                filterPullRequestList(p)}

AggReviews == [state : ReviewStates, reviewer : AggReviewers, submited_at : AggTimes]

\* The collection main holds after both loops: the first repository's pulls,
\* then the second's, each with its reviews.
Collection(first, second, reviews) ==
    [i \in 1..(Len(first) + Len(second)) |->
        WithReviews(IF i <= Len(first)
                    THEN NormalizePull(repos[1], first[i], i)
                    ELSE NormalizePull(repos[2], second[i - Len(first)], i - Len(first)),
                    reviews[i])]

AggInit ==
    /\ \E n1 \in 0..MaxAggPulls : \E n2 \in 0..(MaxAggPulls - n1) :
         \E first \in [1..n1 -> AggPulls] : \E second \in [1..n2 -> AggPulls] :
           \E reviews \in [1..(n1 + n2) -> SeqsUpTo(AggReviews, MaxAggReviews)] :
              /\ SeqSum([i \in 1..(n1 + n2) |-> Len(reviews[i])]) <= MaxAggReviews
              /\ prs = Collection(first, second, reviews)
    /\ pc = "aggregate"
    /\ progress = Len(prs)
    /\ completed = Len(prs)
    /\ bar = displayDone(Len(prs))
    /\ page = <<>>
    /\ listing = <<>>
    /\ inflight = {}
    /\ detailedStats = [computed |-> FALSE]
    /\ stats = [computed |-> FALSE]
    /\ tables = <<>>
    /\ filename = ""
    /\ fileResult = "none"
    /\ errorLog = <<>>
    /\ failure = "none"

AggNext == Aggregate \/ Summarize

AggSpec == AggInit /\ [][AggNext]_vars

---------------------------------------------------------------------------
(* What the claims speak of *)

Handles == {"alice", "bob", "constructor"}

InWindow(t) == dateFrom < t /\ t < dateTo

InRepo(i, r) == prs[i].owner = r.owner /\ prs[i].repo = r.repo

\* The pull requests of repository r on which actor a left a review of the
\* given state that satisfies Counts.
PullsReviewed(r, a, state, Counts(_, _)) ==
    {i \in 1..Len(prs) :
        /\ InRepo(i, r)
        /\ \E j \in 1..Len(prs[i].reviews) :
              /\ prs[i].reviews[j].reviewer = a
              /\ prs[i].reviews[j].state = state
              /\ Counts(prs[i], prs[i].reviews[j])}

\* A qualifying review: submitted strictly inside the window by someone other
\* than the author.
Qualifying(pr, review) == InWindow(review.submited_at) /\ review.reviewer # pr.author

NotSelf(pr, review) == review.reviewer # pr.author

Timely(pr, review) == InWindow(review.submited_at)

\* The detailed rows of (r, a), and a counter summed over them.
RowsOf(r, a) ==
    {i \in 1..Len(detailedStats.rows) :
        /\ detailedStats.rows[i].owner = r.owner
        /\ detailedStats.rows[i].repo = r.repo
        /\ detailedStats.rows[i].author = a}

RECURSIVE SumOver(_, _, _)
SumOver(rows, idx, field) ==
    IF idx = {} THEN 0
    ELSE LET i == CHOOSE x \in idx : TRUE
         IN  rows[i][field] + SumOver(rows, idx \ {i}, field)

Counter(r, a, field) == SumOver(detailedStats.rows, RowsOf(r, a), field)

\* C1: every (owner, repo, actor) ends with commented (approved) equal to the
\* number of pull requests of that repository carrying at least one qualifying
\* COMMENTED (APPROVED) review by that actor: each pull request adds at most
\* one to each counter, and the markers of one pull request do not hide the
\* reviews of the next.
C1_OncePerPull ==
    detailedStats.computed =>
        \A r \in Range(repos) : \A a \in Handles :
            /\ Counter(r, a, "commented")
                 = Cardinality(PullsReviewed(r, a, "COMMENTED", Qualifying))
            /\ Counter(r, a, "approved")
                 = Cardinality(PullsReviewed(r, a, "APPROVED", Qualifying))

\* A pull request with two qualifying COMMENTED reviews by one reviewer, who
\* also commented on another pull request of the repository, which has a
\* qualifying review by a second reviewer too: counted 2 and 1.
C1_Witness ==
    /\ detailedStats.computed
    /\ Len(prs) = 2
    /\ prs[1].repo = prs[2].repo
    /\ Len(prs[1].reviews) = 2
    /\ \A j \in 1..2 : /\ prs[1].reviews[j].state = "COMMENTED"
                        /\ prs[1].reviews[j].reviewer = "bob"
                        /\ Qualifying(prs[1], prs[1].reviews[j])
    /\ Counter(repos[1], "bob", "commented") + Counter(repos[2], "bob", "commented") = 1

C1_WitnessNextPull ==
    /\ detailedStats.computed
    /\ Len(prs) = 2
    /\ prs[1].repo = prs[2].repo
    /\ \A i \in 1..2 : /\ Len(prs[i].reviews) = 1
                        /\ prs[i].reviews[1].state = "APPROVED"
                        /\ prs[i].reviews[1].reviewer = "bob"
                        /\ Qualifying(prs[i], prs[i].reviews[1])
    /\ Counter(repos[1], "bob", "approved") + Counter(repos[2], "bob", "approved") = 2

\* C2: a review by the author of its pull request adds nothing: an actor's
\* commented (approved) never exceeds the number of pull requests of the
\* repository by somebody else that carry a COMMENTED (APPROVED) review by
\* that actor, whatever the timestamps.
C2_SelfReviewsUncounted ==
    detailedStats.computed =>
        \A r \in Range(repos) : \A a \in Handles :
            /\ Counter(r, a, "commented")
                 <= Cardinality(PullsReviewed(r, a, "COMMENTED", NotSelf))
            /\ Counter(r, a, "approved")
                 <= Cardinality(PullsReviewed(r, a, "APPROVED", NotSelf))

\* The author reviewed their own pull request twice inside the window,
\* COMMENTED and APPROVED, and has no count for it.
C2_Witness ==
    /\ detailedStats.computed
    /\ Len(prs) = 1
    /\ Len(prs[1].reviews) = 2
    /\ prs[1].reviews[1].state = "COMMENTED"
    /\ prs[1].reviews[2].state = "APPROVED"
    /\ \A j \in 1..2 : /\ prs[1].reviews[j].reviewer = prs[1].author
                        /\ InWindow(prs[1].reviews[j].submited_at)
    /\ Counter(repos[1], prs[1].author, "commented") = 0
    /\ Counter(repos[1], prs[1].author, "approved") = 0

\* C3: created counts exactly the author's pull requests created strictly
\* inside the window, and a counted review was submitted strictly inside it;
\* neither depends on the other nor on the state of the pull request.
C3_StrictWindow ==
    detailedStats.computed =>
        \A r \in Range(repos) : \A a \in Handles :
            /\ Counter(r, a, "created")
                 = Cardinality({i \in 1..Len(prs) :
                      InRepo(i, r) /\ prs[i].author = a /\ InWindow(prs[i].created_at)})
            /\ Counter(r, a, "commented")
                 <= Cardinality(PullsReviewed(r, a, "COMMENTED", Timely))
            /\ Counter(r, a, "approved")
                 <= Cardinality(PullsReviewed(r, a, "APPROVED", Timely))

\* An open pull request created on dateFrom itself: nothing created for its
\* author; of its two reviews by another actor the one submitted on dateTo is
\* not counted and the one inside the window is.
C3_Witness ==
    /\ detailedStats.computed
    /\ Len(prs) = 1
    /\ prs[1].state = "open"
    /\ prs[1].created_at = dateFrom
    /\ prs[1].author = "alice"
    /\ Len(prs[1].reviews) = 2
    /\ prs[1].reviews[1] = [state |-> "COMMENTED", reviewer |-> "bob", submited_at |-> dateTo]
    /\ prs[1].reviews[2] = [state |-> "APPROVED", reviewer |-> "bob", submited_at |-> dateFrom + 1]
    /\ Counter(repos[1], "alice", "created") = 0
    /\ Counter(repos[1], "bob", "commented") = 0
    /\ Counter(repos[1], "bob", "approved") = 1

\* C4: the detailed rows hold at most one row per (owner, repo, author) and
\* every row has some nonzero counter.
C4_UniqueNonzeroRows ==
    detailedStats.computed =>
        LET rows == detailedStats.rows
        IN  /\ \A i, j \in 1..Len(rows) :
                 (/\ rows[i].owner = rows[j].owner
                  /\ rows[i].repo = rows[j].repo
                  /\ rows[i].author = rows[j].author) => i = j
            /\ \A i \in 1..Len(rows) :
                 rows[i].created > 0 \/ rows[i].commented > 0 \/ rows[i].approved > 0

\* The rows of one author, the authors, and the repositories of an author's
\* rows that satisfy Has.
AuthorsOf(rows) == {rows[i].author : i \in 1..Len(rows)}

RowsBy(rows, a) == {i \in 1..Len(rows) : rows[i].author = a}

ReposWhere(rows, a, Has(_)) ==
    {<<rows[i].owner, rows[i].repo>> : i \in {k \in RowsBy(rows, a) : Has(rows[k])}}

HasCreated(row) == row.created > 0

HasReviewed(row) == row.commented > 0 \/ row.approved > 0

AnyRow(row) == TRUE

\* C5: getSummary returns exactly one row per author of the detailed rows,
\* with the sums of the three counters and the two counts of repositories.
C5_SummaryPerAuthor ==
    stats.computed =>
        /\ ~stats.threw
        /\ LET rows == detailedStats.rows
               sum == stats.rows
           IN  /\ AuthorsOf(sum) = AuthorsOf(rows)
               /\ \A i, j \in 1..Len(sum) : sum[i].author = sum[j].author => i = j
               /\ \A i \in 1..Len(sum) :
                    LET a == sum[i].author
                    IN  /\ sum[i].pull_requests = SumOver(rows, RowsBy(rows, a), "created")
                        /\ sum[i].commented = SumOver(rows, RowsBy(rows, a), "commented")
                        /\ sum[i].approved = SumOver(rows, RowsBy(rows, a), "approved")
                        /\ sum[i].repos = Cardinality(ReposWhere(rows, a, HasCreated))
                        /\ sum[i].repos_reviewed = Cardinality(ReposWhere(rows, a, HasReviewed))
                        /\ sum[i].repos <= Cardinality(ReposWhere(rows, a, AnyRow))

---------------------------------------------------------------------------
(* Claims about main *)

\* The items of a page the fetch-time rule keeps: open, or created strictly
\* inside the window.
Kept(data) ==
    SelectSeq(data, LAMBDA pr : pr.state = "open" \/ InWindow(pr.created_at))

Retained(pr) == pr.state = "open" \/ InWindow(pr.created_at)

\* C6: every page item goes through the rule "open, or created strictly inside
\* the window": each page adds exactly its items that satisfy it, in order, so
\* no closed pull request created on or outside a bound of the window is ever
\* in the collection main aggregates.
C6_FetchFilter ==
    /\ [](/\ \A i \in 1..Len(prs) : Retained(prs[i])
          /\ \A i \in 1..Len(listing) : Retained(listing[i]))
    /\ [][(pc = "awaitPulls" /\ failure' # "RequestError")
            => listing' = listing \o Kept(page')]_vars

\* The first repository listed an open pull request created on dateTo, which
\* main holds; the second sent a closed one created on dateTo, which is dropped.
C6_Witness ==
    /\ pc = "awaitPulls"
    /\ Len(prs) = 1
    /\ prs[1].state = "open"
    /\ prs[1].created_at = dateTo
    /\ Len(page) = 1
    /\ page[1].state = "closed"
    /\ page[1].created_at = dateTo
    /\ listing = <<>>

\* C7: at most one remote request is outstanding; it is the listing of the
\* repository at the loop counter, or the reviews of the pull request at the
\* loop counter, and every fetch before it in the phase has completed.
C7_OneFetchAtATime ==
    /\ Cardinality(inflight) <= 1
    /\ \A q \in inflight :
          /\ q.kind = "user" => pc = "awaitUser"
          /\ q.kind = "pulls" =>
                /\ pc = "awaitPulls"
                /\ q.owner = repos[progress + 1].owner
                /\ q.repo = repos[progress + 1].repo
                /\ completed = progress
          /\ q.kind = "reviews" =>
                /\ pc = "awaitReviews"
                /\ q.owner = prs[progress + 1].owner
                /\ q.repo = prs[progress + 1].repo
                /\ q.pull_number = prs[progress + 1].number
                /\ completed = progress
                /\ \A i \in 1..Len(prs) : ("reviews" \in DOMAIN prs[i]) <=> i <= progress

\* The reviews of the second pull request are outstanding, those of the first
\* have arrived.
C7_Witness ==
    /\ pc = "awaitReviews"
    /\ progress = 1
    /\ Cardinality(inflight) = 1
    /\ "reviews" \in DOMAIN prs[1]

\* C8 as stated: when a report with completed = k is on display, the k-th
\* fetch of the phase has completed.
C8_ReportAfterFetch ==
    bar.kind = "progress" => completed >= bar.progress

\* C8 amended: a report with completed = k is emitted when exactly k - 1
\* fetches of the phase have completed, together with the start of the k-th
\* fetch, which is then outstanding.
C8_ReportBeforeFetch ==
    [][(bar' # bar /\ bar'.kind = "progress")
        => /\ completed' = bar'.progress - 1
           /\ inflight = {}
           /\ Cardinality(inflight') = 1
           /\ pc' \in {"awaitPulls", "awaitReviews"}]_vars

\* The report 2/2 of the review phase is on display while the second fetch is
\* outstanding and one fetch has completed.
C8_Witness ==
    /\ pc = "awaitReviews"
    /\ bar.kind = "progress"
    /\ bar.progress = 2
    /\ completed = 1
    /\ inflight # {}

BothTables ==
    /\ Len(tables) = 2
    /\ tables[1].name = "detailed"
    /\ tables[2].name = "summary"

\* C9: a failed write of the output file is logged and main still returns
\* normally; both tables were on the display before the write.
C9_WriteFailureContained ==
    [][(fileResult = "none" /\ fileResult' = "failed")
        => /\ BothTables
           /\ tables' = tables
           /\ pc' = "done"
           /\ failure' = "none"
           /\ Len(errorLog') = Len(errorLog) + 1]_vars

C9_Witness ==
    /\ filename # ""
    /\ fileResult = "failed"
    /\ pc = "done"
    /\ errorLog # <<>>
    /\ BothTables

=============================================================================
